---- MODULE Spec2Model ----
(***************************************************************************)
(* Privacy computation orchestration of v1ta-app:                          *)
(*   V1TArciumClient      src/src/lib/arcium/client.ts                     *)
(*   V1TAPrivacyClient    src/unnamed/part_000                             *)
(*   usePrivatePosition   src/unnamed/part_001                             *)
(* One client instance serves every caller.  An async method is cut at its *)
(* awaits on the external network: each action below is the synchronous    *)
(* stretch of code that runs between two such awaits.                      *)
(***************************************************************************)
EXTENDS Integers, Sequences, FiniteSets, TLC

\* ------------------------------------------------------------- bounds
MaxCalls == 2          \* calls of the public operations in one behaviour
MaxPositions == 2      \* position ids in use
MaxInits == 1          \* calls of initialize in one behaviour
MaxBatch == 2          \* positions in one batchHealthComputations call
RetryAttempts == 1     \* MXEConfiguration.retryAttempts, a configured value
MaxDebt == 2           \* largest debt amount handed to validatePrivacySettings
MaxDraws == 1          \* random draws made before an encryptData call
MaxHookInits == 2      \* initialize calls of one hook instance in one behaviour

PositionIds == 1..MaxPositions

\* An optional value: <<>> is undefined/null, <<x>> is x.
None == <<>>
Some(x) == <<x>>

\* types.ts:12-17  enum PrivacyLevel
PUBLIC == 0
SHIELDED == 1
CONFIDENTIAL == 2
PRIVATE == 3
PrivacyLevels == {PUBLIC, SHIELDED, CONFIDENTIAL, PRIVATE}

VARIABLES
    isInitialized,          \* V1TArciumClient.isInitialized
    userKeyPair,            \* V1TArciumClient.userKeyPair (None or a key pair id)
    arciumProgram,          \* V1TArciumClient._arciumProgram (None or the key pair it was built for)
    initPc,                 \* "idle", or "awaitProgram" while initialize awaits getArciumProgram
    nInits,                 \* initialize calls made so far
    computationCallbacks,   \* V1TArciumClient.computationCallbacks: key -> call that registered the closure
    privacyEnabled,         \* V1TAPrivacyClient.privacyEnabled
    activeComputations,     \* usePrivatePosition.activeComputations: positionId -> status
    ledger,                 \* positions persisted by the ledger program's openPosition
    nextPositionId,         \* position ids handed out so far (generatePositionId)
    nextOffset,             \* computation offsets the network has handed out so far
    calls,                  \* the calls made so far, in call order
    nRandom,                \* generateRandomBytes draws so far whose value a call record keeps
    validation,             \* the last validatePrivacySettings call: its arguments and its return value
    codec,                  \* the last encrypt/decrypt call chain: its arguments and what each step returned
    hook,                   \* useArciumPrivacy: the state of one mounted hook instance
    toggle,                 \* PrivacyToggle: the component's state and its last onPrivacyChange call
    settings                \* PrivacySettings: the component's state and its last onPrivacyChange call

vars == <<isInitialized, userKeyPair, arciumProgram, initPc, nInits,
          computationCallbacks, privacyEnabled, activeComputations, ledger,
          nextPositionId, nextOffset, calls, nRandom, validation, codec,
          hook, toggle, settings>>

\* The state of the React hook and components.
uiVars == <<hook, toggle, settings>>

\* What the pure functions were last called with and returned.
pureVars == <<validation, codec>>

clientVars == <<isInitialized, userKeyPair, arciumProgram, initPc, nInits>>

\* ------------------------------------------------------------ helpers
\* Map.set of a JavaScript Map held as a function on its key set.
MapSet(m, k, v) == [x \in (DOMAIN m) \cup {k} |-> IF x = k THEN v ELSE m[x]]

EmptyMap == [x \in {} |-> None]

\* client.ts:353  `${positionId}-${computationType}`
callbackKey(positionId, computationType) == <<positionId, computationType>>

Ops == {"computePrivateHealth", "createPrivatePosition", "openPrivatePosition",
        "batchHealthComputations", "getPrivatePosition"}

\* The record of one call.  pc is the await the call is suspended at, or
\* "done"/"failed" once its promise has settled.
NewCall(op, pid) ==
    [op |-> op,
     pid |-> pid,              \* positionId the call works on
     pc |-> "new",
     initAtEntry |-> None,     \* isInitialized as the client's guard read it, once read
     privacyAtEntry |-> None,  \* privacyEnabled as the privacy client's guard read it
     found |-> None,           \* getPrivatePosition: the position returned
     encPos |-> FALSE,         \* encryptPositionData encrypted the three fields
     encFailed |-> {},         \* the fields whose encryption threw
     position |-> None,        \* the EncryptedPosition encryptPositionData returned
     level |-> None,           \* open: params.privacyLevel
     metadata |-> None,        \* open: the privacy metadata handed to the ledger
     rpcSent |-> FALSE,        \* open: the ledger transaction was sent
     receipt |-> None,         \* open: the PrivatePositionReceipt returned
     sends |-> 0,              \* sendRawTransaction calls made
     confirmation |-> None,    \* what confirmTransaction resolved with
     ref |-> None,             \* ComputationReference returned by createHealthFactorComputation
     expired |-> FALSE,        \* the configured timeout passed while awaiting finalization
     tag |-> "",               \* kind tag of the payload awaitComputationFinalization resolved with
     result |-> None,          \* PrivateHealthResult handed to the caller
     err |-> "",               \* root cause of the last error raised in the call
     rest |-> <<>>,            \* batch: the positions after the current one
     results |-> <<>>]         \* batch: the results pushed so far

\* part_001:21-25  the state of useArciumPrivacy at mount, and the
\* initialize calls of the instance: those in flight, those that failed, and
\* those the auto-initialize effect started after a failure.
NewHook ==
    [isInitialized |-> FALSE,
     isInitializing |-> FALSE,
     integrationStatus |-> None,
     error |-> "",
     inFlight |-> 0,
     failures |-> 0,
     effectRetries |-> 0]

\* header.tsx:181-187  the state of PrivacyToggle at mount; notified is the
\* last onPrivacyChange(enabled, level) call, awaiting the (enabled, level)
\* pairs of the handleToggle calls suspended at their test encryption.
NewToggle ==
    [privacyEnabled |-> FALSE,
     selectedLevel |-> CONFIDENTIAL,
     validationResult |-> None,
     awaiting |-> {},
     notified |-> None]

\* privacy-settings.tsx:37-40  the state of PrivacySettings at mount; notified
\* is the last onPrivacyChange(level) call, validationResult the last value
\* validatePrivacySettings returned to it.
NewSettings ==
    [selectedPrivacyLevel |-> SHIELDED,
     validationResult |-> None,
     notified |-> None]

\* ---------------------------------------------------------------- Init
Init ==
    /\ isInitialized = FALSE
    /\ userKeyPair = None
    /\ arciumProgram = None
    /\ initPc = "idle"
    /\ nInits = 0
    /\ computationCallbacks = EmptyMap
    /\ privacyEnabled = FALSE
    /\ activeComputations = EmptyMap
    /\ ledger = {}
    /\ nextPositionId = 0
    /\ nextOffset = 0
    /\ calls = <<>>
    /\ nRandom = 0
    /\ validation = None
    /\ codec = None
    /\ hook = NewHook
    /\ toggle = NewToggle
    /\ settings = NewSettings

\* ------------------------------------------------- bytes and ciphers
\* A bigint is held as its base-256 digits, least significant first, without
\* high zero digits: 0 is <<>>, 1 is <<1>>, 256 is <<0, 1>>.
RECURSIVE BigInt(_)
\* client.ts:85  BigInt(data) of a number
BigInt(n) == IF n = 0 THEN <<>> ELSE <<n % 256>> \o BigInt(n \div 256)

\* The digits of a byte string read least significant byte first.
RECURSIVE Canonical(_)
Canonical(digits) ==
    IF digits = <<>> THEN <<>>
    ELSE IF digits[Len(digits)] = 0 THEN Canonical(SubSeq(digits, 1, Len(digits) - 1))
    ELSE digits

Reverse(bytes) == [i \in 1..Len(bytes) |-> bytes[Len(bytes) + 1 - i]]

\* @arcium-hq/client serializeLE(val, lengthInBytes): val as lengthInBytes
\* bytes, least significant first; a value that does not fit is an error.
serializeLE(val, lengthInBytes) ==
    IF Len(val) > lengthInBytes THEN None
    ELSE Some([i \in 1..lengthInBytes |-> IF i <= Len(val) THEN val[i] ELSE 0])

\* client.ts:82  new TextEncoder().encode(data): UTF-8 of a string given as its
\* code points (below 2048 here: one or two bytes each).
RECURSIVE TextEncode(_)
TextEncode(str) ==
    IF str = <<>> THEN <<>>
    ELSE (IF Head(str) < 128 THEN <<Head(str)>>
          ELSE <<192 + (Head(str) \div 64), 128 + (Head(str) % 64)>>)
         \o TextEncode(Tail(str))

\* client.ts:316-320  generateRandomBytes(length), the n-th draw from
\* crypto.getRandomValues: a draw is taken never to equal another draw, and
\* the bytes stand for the number of the draw.
generateRandomBytes(length, n) == [i \in 1..length |-> n % 256]

\* client.ts:88  key length of the algorithm
KeyLength(algorithm) == IF algorithm = "AES-256" THEN 32 ELSE 16

\* @arcium-hq/client Aes256Cipher / Aes128Cipher: a symmetric cipher under a
\* key of the cipher's length; each byte is shifted by a pad made from the
\* cipher, the key and the nonce.
CipherPad(length, key, nonce, i) ==
    (length + key[((i - 1) % Len(key)) + 1] + nonce[((i - 1) % Len(nonce)) + 1]) % 256

CipherEncrypt(length, key, plaintext, nonce) ==
    [i \in 1..Len(plaintext) |-> (plaintext[i] + CipherPad(length, key, nonce, i)) % 256]

CipherDecrypt(length, key, ciphertext, nonce) ==
    [i \in 1..Len(ciphertext) |->
        (ciphertext[i] + 256 - CipherPad(length, key, nonce, i)) % 256]

\* client.ts:84, 85  the widths numbers are serialized at
BigIntWidth == 64
NumberWidth == 32

\* client.ts:80-85  the bytes of the data handed to encryptData: a string, a
\* bigint or a number.
dataBytes(data) ==
    IF data.type = "string" THEN Some(TextEncode(data.value))
    ELSE IF data.type = "bigint" THEN serializeLE(data.value, BigIntWidth)
    ELSE serializeLE(BigInt(data.value), NumberWidth)

\* client.ts:70-113  encryptData(data, {algorithm, key}) after n draws of
\* random bytes: the key is options.key or a draw of the algorithm's length,
\* the nonce is a draw of 12 bytes, the cipher is chosen by algorithm.  None
\* stands for the error thrown at 109-112 when the conversion or the cipher
\* throws (cipherThrows: the cipher rejected the call).
encryptData(data, algorithm, key, n, cipherThrows) ==
    LET bytes == dataBytes(data)
        encryptionKey == IF key # None THEN key[1]
                         ELSE generateRandomBytes(KeyLength(algorithm), n + 1)
        nonce == generateRandomBytes(12, IF key # None THEN n + 1 ELSE n + 2)
    IN IF bytes = None \/ cipherThrows \/ Len(encryptionKey) # KeyLength(algorithm)
       THEN None
       ELSE Some([data |-> CipherEncrypt(KeyLength(algorithm), encryptionKey,
                                         bytes[1], nonce),
                  key |-> encryptionKey,
                  nonce |-> nonce,
                  algorithm |-> algorithm])

\* A decryptData that runs the 256-bit cipher whatever the record's algorithm.
decryptDataOneCipher(encryptedData) ==
    Some(CipherDecrypt(32, encryptedData.key, encryptedData.data,
                       encryptedData.nonce))

\* client.ts:118-137  decryptData(encryptedData): the cipher is chosen by the
\* record's algorithm and run with the record's key and nonce.
decryptData(encryptedData) ==
    IF encryptedData.algorithm = "AES-256"
    THEN IF Len(encryptedData.key) # 32 THEN None
         ELSE Some(CipherDecrypt(32, encryptedData.key, encryptedData.data,
                                 encryptedData.nonce))
    ELSE IF Len(encryptedData.key) # 16 THEN None
         ELSE Some(CipherDecrypt(16, encryptedData.key, encryptedData.data,
                                 encryptedData.nonce))

\* ------------------------------------------------- V1TArciumClient
\* client.ts:47-53  initialize, up to its await: the key pair is assigned
\* before the program instance is requested.
InitializeStart ==
    /\ initPc = "idle"
    /\ nInits < MaxInits
    /\ nInits' = nInits + 1
    /\ userKeyPair' = Some(nInits + 1)
    /\ initPc' = "awaitProgram"
    /\ UNCHANGED uiVars
    /\ UNCHANGED <<nRandom, pureVars>>
    /\ UNCHANGED <<isInitialized, arciumProgram, computationCallbacks, privacyEnabled,
                   activeComputations, ledger, nextPositionId, nextOffset, calls>>

\* client.ts:56-64  getArciumProgram resolved (ok) or threw.
InitializeDone(ok) ==
    /\ initPc = "awaitProgram"
    /\ initPc' = "idle"
    /\ IF ok
       THEN /\ arciumProgram' = userKeyPair
            /\ isInitialized' = TRUE
       ELSE UNCHANGED <<arciumProgram, isInitialized>>
    /\ UNCHANGED uiVars
    /\ UNCHANGED <<nRandom, pureVars>>
    /\ UNCHANGED <<userKeyPair, nInits, computationCallbacks, privacyEnabled,
                   activeComputations, ledger, nextPositionId, nextOffset, calls>>

\* client.ts:147  guard of encryptPositionData
encryptPositionDataGuard == isInitialized

\* A createHealthFactorComputation that lost its guard.
createHealthFactorComputationUnguarded == TRUE

\* client.ts:191  guard of createHealthFactorComputation
createHealthFactorComputationGuard == isInitialized /\ arciumProgram # None

\* A generatePositionId that hands out the id it handed out last.
generatePositionIdRepeating == IF nextPositionId = 0 THEN nextPositionId + 1 ELSE nextPositionId

\* client.ts:325-330  generatePositionId: a time-ordered prefix and 64 random
\* bits; taken as never repeating.
generatePositionId == nextPositionId + 1

Fields == {"collateral", "debt", "owner"}

\* client.ts:153  the position key, the first draw of encryptPositionData
newPositionKey == generateRandomBytes(32, nRandom + 1)

\* Promise.all over the three encryptData calls (client.ts:159-163), each
\* under the position key and its own nonce draw, for the fields in `throws`
\* failing.
encryptedFields(collateralAmount, debtAmount, owner, throws, nonceDraw) ==
    [collateral |->
        encryptData([type |-> "bigint", value |-> collateralAmount], "AES-256",
                    Some(newPositionKey), nRandom + nonceDraw[1], "collateral" \in throws),
     debt |->
        encryptData([type |-> "bigint", value |-> debtAmount], "AES-256",
                    Some(newPositionKey), nRandom + nonceDraw[2], "debt" \in throws),
     owner |->
        encryptData([type |-> "string", value |-> owner], "AES-256",
                    Some(newPositionKey), nRandom + nonceDraw[3], "owner" \in throws)]

\* client.ts:165-175  the EncryptedPosition built from the encrypted fields f;
\* the level is the literal PrivacyLevel.CONFIDENTIAL (172).
newEncryptedPosition(owner, f) ==
    [positionId |-> generatePositionId,
     owner |-> owner,
     encryptedCollateral |-> f.collateral[1],
     encryptedDebt |-> f.debt[1],
     encryptedOwner |-> f.owner,          \* optional (types.ts:37): None or Some
     positionKey |-> newPositionKey,
     privacyLevel |-> CONFIDENTIAL]

\* An encryptPositionData that returns the position when the owner, an
\* optional field, could not be encrypted.
encryptPositionDataPartial(c, collateralAmount, debtAmount, owner, throws) ==
    LET f == encryptedFields(collateralAmount, debtAmount, owner, throws, <<1, 2, 3>>)
        failed == {x \in Fields : f[x] = None} IN
    IF ~encryptPositionDataGuard
    THEN [c EXCEPT !.pc = "failed", !.err = "NotInitialized",
                   !.initAtEntry = Some(isInitialized)]
    ELSE IF failed \ {"owner"} # {}
    THEN [c EXCEPT !.pc = "failed", !.err = "PositionEncryptionError",
                   !.encFailed = failed, !.initAtEntry = Some(isInitialized)]
    ELSE [c EXCEPT !.pid = generatePositionId, !.encPos = TRUE,
                   !.encFailed = failed,
                   !.position = Some(newEncryptedPosition(owner, f)),
                   !.initAtEntry = Some(isInitialized)]

\* An encryptPositionData that encrypts the three fields under one nonce.
encryptPositionDataSharedNonce(c, collateralAmount, debtAmount, owner, throws) ==
    LET f == encryptedFields(collateralAmount, debtAmount, owner, throws, <<1, 1, 1>>)
        failed == {x \in Fields : f[x] = None} IN
    IF ~encryptPositionDataGuard
    THEN [c EXCEPT !.pc = "failed", !.err = "NotInitialized",
                   !.initAtEntry = Some(isInitialized)]
    ELSE IF failed # {}
    THEN [c EXCEPT !.pc = "failed", !.err = "PositionEncryptionError",
                   !.encFailed = failed, !.initAtEntry = Some(isInitialized)]
    ELSE [c EXCEPT !.pid = generatePositionId, !.encPos = TRUE,
                   !.position = Some(newEncryptedPosition(owner, f)),
                   !.initAtEntry = Some(isInitialized)]

\* client.ts:142-180  encryptPositionData on call record c: the guard (147),
\* then the position key (153, draw 1), a fresh position id (156) and the
\* three field encryptions under that key (159-163, nonce draws 2 to 4); any
\* of them failing rejects the whole call (176-179).
encryptPositionData(c, collateralAmount, debtAmount, owner, throws) ==
    LET f == encryptedFields(collateralAmount, debtAmount, owner, throws, <<1, 2, 3>>)
        failed == {x \in Fields : f[x] = None} IN
    IF ~encryptPositionDataGuard
    THEN [c EXCEPT !.pc = "failed", !.err = "NotInitialized",
                   !.initAtEntry = Some(isInitialized)]
    ELSE IF failed # {}
    THEN [c EXCEPT !.pc = "failed", !.err = "PositionEncryptionError",
                   !.encFailed = failed, !.initAtEntry = Some(isInitialized)]
    ELSE [c EXCEPT !.pid = generatePositionId, !.encPos = TRUE,
                   !.position = Some(newEncryptedPosition(owner, f)),
                   !.initAtEntry = Some(isInitialized)]

\* client.ts:185-215  createHealthFactorComputation on call record c, up to its
\* first await (buildFinalizeCompDefTx).
createHealthFactorComputation(c) ==
    IF ~createHealthFactorComputationGuard
    THEN [c EXCEPT !.pc = "failed", !.err = "NotInitialized",
                   !.initAtEntry = Some(isInitialized)]
    ELSE [c EXCEPT !.pc = "awaitBuild", !.initAtEntry = Some(isInitialized)]

\* A transaction log line: plain, or carrying the marker 'Computation created:'
\* followed by text that BigInt parses (numeric) or rejects.
PlainLog == [marker |-> FALSE, numeric |-> FALSE, value |-> 0]
MarkerLog(n) == [marker |-> TRUE, numeric |-> TRUE, value |-> n]
GarbledMarkerLog == [marker |-> TRUE, numeric |-> FALSE, value |-> 0]

\* What confirmTransaction can resolve with when the network would hand out
\* offset n: a transaction error, or logs with or without the marker.
Confirmations(n) ==
    { [txErr |-> TRUE,  logs |-> <<>>],
      [txErr |-> FALSE, logs |-> <<>>],
      [txErr |-> FALSE, logs |-> <<PlainLog>>],
      [txErr |-> FALSE, logs |-> <<GarbledMarkerLog>>],
      [txErr |-> FALSE, logs |-> <<PlainLog, MarkerLog(n)>>] }

HasMarker(confirmation) ==
    \E i \in DOMAIN confirmation.logs : confirmation.logs[i].marker

\* An extractComputationReference that makes a reference up when the logs
\* carry no marker.
extractComputationReferenceFabricating(confirmation) ==
    IF \E i \in DOMAIN confirmation.logs :
           confirmation.logs[i].marker /\ confirmation.logs[i].numeric
    THEN LET i == CHOOSE j \in DOMAIN confirmation.logs :
                     confirmation.logs[j].marker /\ confirmation.logs[j].numeric
         IN [ok |-> TRUE, ref |-> Some(confirmation.logs[i].value), err |-> ""]
    ELSE [ok |-> TRUE, ref |-> Some(nextOffset + 1), err |-> ""]

\* client.ts:335-347  extractComputationReference: the first log with the
\* marker decides; BigInt throws on text that is no number.
extractComputationReference(confirmation) ==
    IF HasMarker(confirmation)
    THEN LET i == CHOOSE j \in DOMAIN confirmation.logs :
                     /\ confirmation.logs[j].marker
                     /\ \A k \in DOMAIN confirmation.logs :
                            confirmation.logs[k].marker => j <= k
             log == confirmation.logs[i]
         IN IF log.numeric
            THEN [ok |-> TRUE, ref |-> Some(log.value), err |-> ""]
            ELSE [ok |-> FALSE, ref |-> None, err |-> "ReferenceExtractionError"]
    ELSE [ok |-> FALSE, ref |-> None, err |-> "ReferenceExtractionError"]

\* A registerComputationCallback that stores nothing.
registerComputationCallbackDropping(positionId, computationType, i) ==
    computationCallbacks

\* client.ts:352-366  registerComputationCallback: Map.set of a new closure,
\* named here by the call i that registers it.
registerComputationCallback(positionId, computationType, i) ==
    MapSet(computationCallbacks, callbackKey(positionId, computationType), i)

\* client.ts:371-384
processHealthFactorResult(r) ==
    [positionId |-> r.positionId, isLiquidatable |-> FALSE,
     computationId |-> r.computationId]

\* client.ts:389-400
processLiquidationResult(r) ==
    [positionId |-> r.positionId, isLiquidatable |-> TRUE,
     computationId |-> r.computationId]

ResultTypes == {"health_factor", "liquidation_check", "interest_calculation", "other"}

\* What awaitComputationFinalization can resolve with: a payload carrying a
\* kind tag and a position id.
Payloads == [type : ResultTypes, positionId : PositionIds]

\* A dispatch that knows the health-factor kind only.
monitorDispatchHealthOnly(computationRef, callbackData) ==
    LET r == [computationId |-> computationRef[1],
              positionId |-> callbackData.positionId] IN
    IF callbackData.type = "health_factor"
    THEN [ok |-> TRUE, result |-> Some(processHealthFactorResult(r)), err |-> ""]
    ELSE [ok |-> FALSE, result |-> None, err |-> "UnknownComputationType"]

\* A dispatch that hands every payload it does not know to the health-factor
\* materializer.
monitorDispatchDefaulting(computationRef, callbackData) ==
    LET r == [computationId |-> computationRef[1],
              positionId |-> callbackData.positionId] IN
    IF callbackData.type = "liquidation_check"
    THEN [ok |-> TRUE, result |-> Some(processLiquidationResult(r)), err |-> ""]
    ELSE [ok |-> TRUE, result |-> Some(processHealthFactorResult(r)), err |-> ""]

\* client.ts:257-275  the dispatch of monitorComputation on the parsed payload.
monitorDispatch(computationRef, callbackData) ==
    LET r == [computationId |-> computationRef[1],
              positionId |-> callbackData.positionId] IN
    IF callbackData.type = "health_factor"
    THEN [ok |-> TRUE, result |-> Some(processHealthFactorResult(r)), err |-> ""]
    ELSE IF callbackData.type = "liquidation_check"
    THEN [ok |-> TRUE, result |-> Some(processLiquidationResult(r)), err |-> ""]
    ELSE [ok |-> FALSE, result |-> None, err |-> "UnknownComputationType"]

\* --------------------------------------------------------- the calls
CallIds == DOMAIN calls

SetCall(i, c) == calls' = [calls EXCEPT ![i] = c]

\* part_000:241-260  the loop of batchHealthComputations from the position at
\* the head of todo on: each position's submission is entered in turn, an
\* error is logged and the loop goes on (255-257), and the results are
\* returned after the last position.  The loop stops at the first await on the
\* network.
RECURSIVE batchLoop(_, _)
batchLoop(c, todo) ==
    IF todo = <<>>
    THEN [c EXCEPT !.pc = "done", !.rest = <<>>]
    ELSE LET h == createHealthFactorComputation(
                      [c EXCEPT !.pid = Head(todo), !.rest = Tail(todo),
                                !.sends = 0, !.confirmation = None, !.ref = None,
                                !.expired = FALSE, !.tag = "", !.result = None,
                                !.err = ""])
         IN IF h.pc = "failed" THEN batchLoop(h, Tail(todo)) ELSE h

\* The error of a failed createHealthFactorComputation reaches the caller
\* (part_000:131-134, 196-199) except under the hook, whose wrapper logs it and
\* returns null (part_001:151-156), after which createPrivatePosition returns
\* the encrypted position without tracking anything (part_001:300, 315), and
\* in a batch, which logs it and goes on (part_000:255-257).
createFailed(c, e) ==
    IF c.op = "createPrivatePosition"
    THEN [c EXCEPT !.pc = "done", !.err = e]
    ELSE IF c.op = "batchHealthComputations"
    THEN batchLoop([c EXCEPT !.err = e], c.rest)
    ELSE [c EXCEPT !.pc = "failed", !.err = e]

\* part_000:64-67
setPrivacyEnabled(enabled) ==
    /\ privacyEnabled # enabled
    /\ privacyEnabled' = enabled
    /\ UNCHANGED uiVars
    /\ UNCHANGED <<nRandom, pureVars>>
    /\ UNCHANGED <<clientVars, computationCallbacks, activeComputations, ledger,
                   nextPositionId, nextOffset, calls>>

\* part_000:140-164  getPrivatePosition(positionId): the privacy guard, then
\* the placeholder position built from two encryptData calls, each under a
\* key and a nonce of its own (draws 1 to 4); an encryption that throws is
\* logged and null is returned (160-163).
getPrivatePosition(positionId, cipherThrows) ==
    /\ Len(calls) < MaxCalls
    /\ LET c == [NewCall("getPrivatePosition", positionId) EXCEPT
                    !.privacyAtEntry = Some(privacyEnabled)]
           encryptedCollateral ==
               encryptData([type |-> "bigint", value |-> BigInt(1000000000)],
                           "AES-256", None, nRandom, cipherThrows)
           encryptedDebt ==
               encryptData([type |-> "bigint", value |-> BigInt(0)],
                           "AES-256", None, nRandom + 2, FALSE) IN
       IF ~privacyEnabled
       THEN /\ calls' = Append(calls, [c EXCEPT !.pc = "failed", !.err = "PrivacyNotEnabled"])
            /\ UNCHANGED nRandom
       ELSE IF encryptedCollateral = None \/ encryptedDebt = None
       THEN /\ calls' = Append(calls, [c EXCEPT !.pc = "done", !.err = "EncryptionError"])
            /\ UNCHANGED nRandom
       ELSE /\ calls' = Append(calls,
                    [c EXCEPT !.pc = "done",
                              !.found = Some([positionId |-> positionId,
                                              encryptedCollateral |-> encryptedCollateral[1],
                                              encryptedDebt |-> encryptedDebt[1],
                                              positionKey |-> [i \in 1..32 |-> 0],
                                              privacyLevel |-> CONFIDENTIAL])])
            /\ nRandom' = nRandom + 4
    /\ UNCHANGED uiVars
    /\ UNCHANGED pureVars
    /\ UNCHANGED <<clientVars, computationCallbacks, privacyEnabled,
                   activeComputations, ledger, nextPositionId, nextOffset>>

\* part_000:169-190  computePrivateHealth(positionId) up to the first network
\* await: the privacy guard, the placeholder position of getPrivatePosition,
\* the price encryption, and the entry of createHealthFactorComputation.
computePrivateHealth(positionId) ==
    /\ Len(calls) < MaxCalls
    /\ LET c == [NewCall("computePrivateHealth", positionId) EXCEPT
                    !.privacyAtEntry = Some(privacyEnabled)] IN
       calls' = Append(calls,
                  IF ~privacyEnabled
                  THEN [c EXCEPT !.pc = "failed", !.err = "PrivacyNotEnabled"]
                  ELSE createHealthFactorComputation(c))
    /\ UNCHANGED uiVars
    /\ UNCHANGED <<nRandom, pureVars>>
    /\ UNCHANGED <<clientVars, computationCallbacks, privacyEnabled,
                   activeComputations, ledger, nextPositionId, nextOffset>>

\* The position lists a batch is called with.
BatchLists == UNION {[1..n -> PositionIds] : n \in 1..MaxBatch}

\* part_000:232-250  batchHealthComputations(positionIds) up to the first
\* network await: the privacy guard, the price encryption, the loop.
batchHealthComputations(positionIds) ==
    /\ Len(calls) < MaxCalls
    /\ LET c == [NewCall("batchHealthComputations", 0) EXCEPT
                    !.privacyAtEntry = Some(privacyEnabled)] IN
       calls' = Append(calls,
                  IF ~privacyEnabled
                  THEN [c EXCEPT !.pc = "failed", !.err = "PrivacyNotEnabled"]
                  ELSE batchLoop(c, positionIds))
    /\ UNCHANGED uiVars
    /\ UNCHANGED <<nRandom, pureVars>>
    /\ UNCHANGED <<clientVars, computationCallbacks, privacyEnabled,
                   activeComputations, ledger, nextPositionId, nextOffset>>

\* The arguments a position is opened with: the amounts of scenario A
\* (collateral 2,000,000,000 and debt 0), an owner, and any level.
Owners == {<<65>>}
OpenCollaterals == {BigInt(2000000000)}
OpenDebts == {BigInt(0)}
OpenParams ==
    [owner : Owners,
     collateralAmount : OpenCollaterals,
     debtAmount : OpenDebts,
     privacyLevel : PrivacyLevels]

\* part_000:291-308  hashEncryptedData: a hash over the position's id and
\* level (and creation time), held as the values it was made from.
hashEncryptedData(encryptedPosition) ==
    [positionId |-> encryptedPosition.positionId,
     privacyLevel |-> encryptedPosition.privacyLevel]

\* part_000:310-320  generatePrivacyProof: the encoded record of the
\* position's id and level and the client's public key.
generatePrivacyProof(encryptedPosition) ==
    [positionId |-> encryptedPosition.positionId,
     privacyLevel |-> encryptedPosition.privacyLevel,
     arciumPublicKey |-> userKeyPair]

\* part_000:72-111  openPrivatePosition(params) up to the ledger transaction:
\* the privacy guard, encryptPositionData, the privacy metadata (91-96), and
\* the openPosition transaction sent.
openPrivatePosition(params, throws) ==
    /\ Len(calls) < MaxCalls
    /\ nextPositionId < MaxPositions
    /\ LET c == [NewCall("openPrivatePosition", 0) EXCEPT
                    !.level = Some(params.privacyLevel),
                    !.privacyAtEntry = Some(privacyEnabled)]
           e == encryptPositionData(c, params.collateralAmount, params.debtAmount,
                                    params.owner, throws) IN
       IF ~privacyEnabled
       THEN /\ calls' = Append(calls, [c EXCEPT !.pc = "failed", !.err = "PrivacyNotEnabled"])
            /\ UNCHANGED <<nextPositionId, nRandom>>
       ELSE IF e.pc = "failed"
       THEN /\ calls' = Append(calls, e)
            /\ UNCHANGED <<nextPositionId, nRandom>>
       ELSE /\ calls' = Append(calls,
                    [e EXCEPT !.pc = "awaitLedger",
                              !.rpcSent = TRUE,
                              !.metadata =
                                  Some([positionId |-> e.position[1].positionId,
                                        privacyLevel |-> params.privacyLevel,
                                        encryptedDataHash |->
                                            hashEncryptedData(e.position[1])])])
            /\ nextPositionId' = e.pid
            /\ nRandom' = nRandom + 4
    /\ UNCHANGED uiVars
    /\ UNCHANGED pureVars
    /\ UNCHANGED <<clientVars, computationCallbacks, privacyEnabled,
                   activeComputations, ledger, nextOffset>>

\* part_000:322-326  getCurrentPrice: BigInt(150000000)
getCurrentPrice == BigInt(150000000)

\* part_000:99-122  the ledger's openPosition returned (ok) or threw; on
\* success the position is on the ledger, the price is encrypted (114-115,
\* under a key and a nonce that are not kept) and
\* createHealthFactorComputation entered.
openPositionRpcDone(i, ok, cipherThrows) ==
    /\ i \in CallIds
    /\ calls[i].pc = "awaitLedger"
    /\ IF ok
       THEN /\ ledger' = ledger \cup {calls[i].pid}
            /\ SetCall(i,
                 IF encryptData([type |-> "bigint", value |-> getCurrentPrice],
                                "AES-256", None, nRandom, cipherThrows) = None
                 THEN [calls[i] EXCEPT !.pc = "failed", !.err = "EncryptionError"]
                 ELSE createHealthFactorComputation(calls[i]))
       ELSE /\ SetCall(i, [calls[i] EXCEPT !.pc = "failed", !.err = "LedgerError"])
            /\ UNCHANGED ledger
    /\ UNCHANGED uiVars
    /\ UNCHANGED <<nRandom, pureVars>>
    /\ UNCHANGED <<clientVars, computationCallbacks, privacyEnabled,
                   activeComputations, nextPositionId, nextOffset>>

\* part_001:266-298  createPrivatePosition of the hook up to the first network
\* await.  The hook holds a client only once its initialize succeeded
\* (part_001:39-42), so its null checks read the same fact as isInitialized.
createPrivatePosition(collateralAmount, debtAmount, owner, throws) ==
    /\ Len(calls) < MaxCalls
    /\ nextPositionId < MaxPositions
    /\ LET c == NewCall("createPrivatePosition", 0)
           e == encryptPositionData(c, collateralAmount, debtAmount, owner, throws) IN
       IF ~isInitialized
       THEN /\ calls' = Append(calls, [c EXCEPT !.pc = "failed", !.err = "EncryptFailed"])
            /\ UNCHANGED <<nextPositionId, nRandom>>
       ELSE IF e.pc = "failed"
       THEN /\ calls' = Append(calls, [e EXCEPT !.err = "EncryptFailed"])
            /\ UNCHANGED <<nextPositionId, nRandom>>
       ELSE /\ LET h == createHealthFactorComputation(e) IN
               calls' = Append(calls, IF h.pc = "failed" THEN createFailed(h, h.err) ELSE h)
            /\ nextPositionId' = e.pid
            /\ nRandom' = nRandom + 4
    /\ UNCHANGED uiVars
    /\ UNCHANGED pureVars
    /\ UNCHANGED <<clientVars, computationCallbacks, privacyEnabled,
                   activeComputations, ledger, nextOffset>>

\* client.ts:204-224  buildFinalizeCompDefTx resolved (ok) or threw; on success
\* the transaction is handed to sendRawTransaction.
buildDone(i, ok) ==
    /\ i \in CallIds
    /\ calls[i].pc = "awaitBuild"
    /\ SetCall(i, IF ok
                  THEN [calls[i] EXCEPT !.pc = "awaitSend", !.sends = @ + 1]
                  ELSE createFailed(calls[i], "BuildError"))
    /\ UNCHANGED uiVars
    /\ UNCHANGED <<nRandom, pureVars>>
    /\ UNCHANGED <<clientVars, computationCallbacks, privacyEnabled,
                   activeComputations, ledger, nextPositionId, nextOffset>>

\* client.ts:218-227  sendRawTransaction resolved (ok) or threw with a
\* transport error; the catch at 240-243 rethrows it at once.
sendDone(i, ok) ==
    /\ i \in CallIds
    /\ calls[i].pc = "awaitSend"
    /\ SetCall(i, IF ok
                  THEN [calls[i] EXCEPT !.pc = "awaitConfirm"]
                  ELSE createFailed(calls[i], "SubmissionError"))
    /\ UNCHANGED uiVars
    /\ UNCHANGED <<nRandom, pureVars>>
    /\ UNCHANGED <<clientVars, computationCallbacks, privacyEnabled,
                   activeComputations, ledger, nextPositionId, nextOffset>>
\* part_001:300-312  what the hook writes into activeComputations when its
\* monitorComputation promise settles.  The hook's wrapper (part_001:168-181)
\* catches every error and resolves with null, so the then-branch runs whether
\* or not the client's monitorComputation succeeded.
hookSettledStatus(ok) == "completed"

\* client.ts:227-239  confirmTransaction resolved with `confirmation`: the
\* error check, the reference extraction, the registration, the return; then
\* the caller's continuation up to its next await.
confirmDone(i, confirmation) ==
    /\ i \in CallIds
    /\ calls[i].pc = "awaitConfirm"
    /\ nextOffset' = IF \E k \in DOMAIN confirmation.logs :
                            confirmation.logs[k] = MarkerLog(nextOffset + 1)
                     THEN nextOffset + 1 ELSE nextOffset
    /\ LET c == [calls[i] EXCEPT !.confirmation = Some(confirmation)]
           x == extractComputationReference(confirmation) IN
       IF confirmation.txErr \/ ~x.ok
       THEN /\ SetCall(i, createFailed(c, IF confirmation.txErr
                                          THEN "TransactionFailed" ELSE x.err))
            /\ UNCHANGED <<computationCallbacks, activeComputations>>
       ELSE /\ computationCallbacks' =
                   registerComputationCallback(c.pid, "health_factor", i)
            /\ IF c.op = "openPrivatePosition"
               THEN \* part_000:124-130  the receipt is returned
                    /\ SetCall(i, [c EXCEPT
                          !.ref = x.ref, !.pc = "done",
                          !.receipt =
                              Some([positionId |-> c.position[1].positionId,
                                    encryptedPosition |-> c.position[1],
                                    computationReferences |-> <<x.ref[1]>>,
                                    privacyProof |->
                                        generatePrivacyProof(c.position[1])])])
                    /\ UNCHANGED activeComputations
               ELSE IF c.op = "createPrivatePosition"
               THEN \* part_001:300-304  tracked as pending, monitoring started
                    /\ SetCall(i, [c EXCEPT !.ref = x.ref, !.pc = "awaitFinal"])
                    /\ activeComputations' = MapSet(activeComputations, c.pid, "pending")
               ELSE \* part_000:193, 252  monitorComputation awaited
                    /\ SetCall(i, [c EXCEPT !.ref = x.ref, !.pc = "awaitFinal"])
                    /\ UNCHANGED activeComputations
    /\ UNCHANGED uiVars
    /\ UNCHANGED <<nRandom, pureVars>>
    /\ UNCHANGED <<clientVars, privacyEnabled, ledger, nextPositionId>>

\* An await that the network can settle only in submission order.
awaitComputationFinalizationFifo(i) ==
    /\ i \in CallIds
    /\ calls[i].pc = "awaitFinal"
    /\ \A j \in CallIds :
           calls[j].pc = "awaitFinal" => calls[j].ref[1] >= calls[i].ref[1]

\* client.ts:252-255  the network may settle the await of call i.
awaitComputationFinalization(i) ==
    /\ i \in CallIds
    /\ calls[i].pc = "awaitFinal"

\* The hook's then/catch chain, run when its monitorComputation settles.
hookTrack(c, ok) ==
    IF c.op = "createPrivatePosition"
    THEN activeComputations' = MapSet(activeComputations, c.pid, hookSettledStatus(ok))
    ELSE UNCHANGED activeComputations

\* The caller's continuation once monitorComputation has settled into c.  A
\* batch pushes the result, or logs the error, and goes on with the next
\* position (part_000:252-257); for the other callers the call is over.
monitorSettled(c, ok) ==
    IF c.op = "batchHealthComputations" /\ c.rest # <<>>
    THEN batchLoop([c EXCEPT !.results = IF ok THEN Append(@, c.result[1]) ELSE @],
                   c.rest)
    ELSE IF c.op = "batchHealthComputations"
    THEN [c EXCEPT !.pc = "done",
                   !.results = IF ok THEN Append(@, c.result[1]) ELSE @]
    ELSE c

\* client.ts:252-275  awaitComputationFinalization resolved with `payload`.
finalizationResolved(i, payload) ==
    /\ awaitComputationFinalization(i)
    /\ LET d == monitorDispatch(calls[i].ref, payload)
           c == [calls[i] EXCEPT !.tag = payload.type,
                                 !.result = d.result,
                                 !.err = d.err,
                                 !.pc = IF d.ok THEN "done" ELSE "failed"] IN
       /\ SetCall(i, monitorSettled(c, d.ok))
       /\ hookTrack(calls[i], d.ok)
    /\ UNCHANGED uiVars
    /\ UNCHANGED <<nRandom, pureVars>>
    /\ UNCHANGED <<clientVars, computationCallbacks, privacyEnabled, ledger,
                   nextPositionId, nextOffset>>

\* client.ts:252, 276-279  awaitComputationFinalization rejected.
finalizationRejected(i) ==
    /\ awaitComputationFinalization(i)
    /\ SetCall(i, monitorSettled([calls[i] EXCEPT !.pc = "failed",
                                                  !.err = "FinalizationRejected"], FALSE))
    /\ hookTrack(calls[i], FALSE)
    /\ UNCHANGED uiVars
    /\ UNCHANGED <<nRandom, pureVars>>
    /\ UNCHANGED <<clientVars, computationCallbacks, privacyEnabled, ledger,
                   nextPositionId, nextOffset>>

\* Time passes: the configured timeout (types.ts:120 computationTimeoutMs)
\* elapses while call i awaits finalization.  No code runs on this event.
timeoutElapses(i) ==
    /\ i \in CallIds
    /\ calls[i].pc = "awaitFinal"
    /\ ~calls[i].expired
    /\ SetCall(i, [calls[i] EXCEPT !.expired = TRUE])
    /\ UNCHANGED uiVars
    /\ UNCHANGED <<nRandom, pureVars>>
    /\ UNCHANGED <<clientVars, computationCallbacks, privacyEnabled,
                   activeComputations, ledger, nextPositionId, nextOffset>>

\* ------------------------------------------------------ specification
\* The payloads a network sends that echoes the callback data it was given at
\* submission (client.ts:208-211) under any kind tag.
EchoPayloads(i) == {p \in Payloads : p.positionId = calls[i].pid}

ClientSteps ==
    \/ InitializeStart
    \/ \E ok \in BOOLEAN : InitializeDone(ok)
    \/ \E enabled \in BOOLEAN : setPrivacyEnabled(enabled)

SubmissionSteps ==
    \/ \E i \in 1..MaxCalls, ok \in BOOLEAN : buildDone(i, ok)
    \/ \E i \in 1..MaxCalls, ok \in BOOLEAN : sendDone(i, ok)
    \/ \E i \in 1..MaxCalls : \E confirmation \in Confirmations(nextOffset + 1) :
           confirmDone(i, confirmation)

FinalizationSteps ==
    \/ \E i \in CallIds : \E payload \in EchoPayloads(i) : finalizationResolved(i, payload)
    \/ \E i \in 1..MaxCalls : finalizationRejected(i)

\* The submission path of a client from its construction on, under the
\* V1TAPrivacyClient callers: initialize and setPrivacyEnabled at any time,
\* calls made before and after them, submissions acknowledged or failing.
NextSubmit ==
    \/ ClientSteps
    \/ \E positionId \in PositionIds : computePrivateHealth(positionId)
    \/ \E params \in OpenParams, throws \in SUBSET Fields :
           openPrivatePosition(params, throws)
    \/ \E i \in 1..MaxCalls, ok \in BOOLEAN, cipherThrows \in BOOLEAN :
           openPositionRpcDone(i, ok, cipherThrows)
    \/ SubmissionSteps

SpecSubmit == Init /\ [][NextSubmit]_vars

\* client.ts:302-311  getIntegrationStatus: read from the fields at the call
\* (the other members are literals).
getIntegrationStatus ==
    [isInitialized |-> isInitialized,
     publicKey |-> userKeyPair,
     currentComputations |-> Cardinality(DOMAIN computationCallbacks)]

\* part_001:41-43  the hook once its initialize has succeeded on a client with
\* key pair 1 and no submission yet.
ReadyHook ==
    [NewHook EXCEPT !.isInitialized = TRUE,
                    !.integrationStatus = Some([isInitialized |-> TRUE,
                                                publicKey |-> Some(1),
                                                currentComputations |-> 0])]

\* The state once initialize has succeeded (client.ts:58, part_000:47,
\* part_001:39-43) and setPrivacyEnabled(true) has been called (part_000:64).
InitReady ==
    /\ isInitialized = TRUE
    /\ userKeyPair = Some(1)
    /\ arciumProgram = Some(1)
    /\ initPc = "idle"
    /\ nInits = 1
    /\ computationCallbacks = EmptyMap
    /\ privacyEnabled = TRUE
    /\ activeComputations = EmptyMap
    /\ ledger = {}
    /\ nextPositionId = 0
    /\ nextOffset = 0
    /\ calls = <<>>
    /\ nRandom = 0
    /\ validation = None
    /\ codec = None
    /\ hook = ReadyHook
    /\ toggle = NewToggle
    /\ settings = NewSettings

\* Orchestration on a ready client: computePrivateHealth and the hook's
\* createPrivatePosition in any interleaving, the network answering in any
\* order or not at all, and the configured timeout running out.
NextOrch ==
    \/ \E positionId \in PositionIds : computePrivateHealth(positionId)
    \/ \E collateralAmount \in OpenCollaterals, debtAmount \in OpenDebts,
          owner \in Owners, throws \in SUBSET Fields :
           createPrivatePosition(collateralAmount, debtAmount, owner, throws)
    \/ SubmissionSteps
    \/ FinalizationSteps
    \/ \E i \in 1..MaxCalls : timeoutElapses(i)

SpecOrch == InitReady /\ [][NextOrch]_vars

\* Batches next to single computations on a ready client.
NextBatch ==
    \/ \E positionId \in PositionIds : computePrivateHealth(positionId)
    \/ \E positionIds \in BatchLists : batchHealthComputations(positionIds)
    \/ \E collateralAmount \in OpenCollaterals, debtAmount \in OpenDebts,
          owner \in Owners, throws \in SUBSET Fields :
           createPrivatePosition(collateralAmount, debtAmount, owner, throws)
    \/ SubmissionSteps
    \/ FinalizationSteps

SpecBatch == InitReady /\ [][NextBatch]_vars

\* ------------------------------------------- validatePrivacySettings
\* part_001:225  BigInt(1000000000), 1 SOL in lamports
MinPrivateCollateral == 1000000000

\* A validatePrivacySettings whose collateral test lets zero through.
validatePrivacySettingsZeroCollateral(collateralAmount, debtAmount, privacyLevel) ==
    [isValid |-> ~(collateralAmount < 0) /\ ~(debtAmount < 0),
     warnings |->
        (IF collateralAmount < 0
         THEN <<"Collateral amount must be greater than 0">> ELSE <<>>)
        \o (IF debtAmount < 0
            THEN <<"Debt amount cannot be negative">> ELSE <<>>)
        \o (IF privacyLevel >= 2 /\ debtAmount = 0
            THEN <<"Confidential privacy level requires debt amount">> ELSE <<>>)
        \o (IF privacyLevel >= 3 /\ collateralAmount < MinPrivateCollateral
            THEN <<"Private privacy level requires minimum 1 SOL collateral">> ELSE <<>>)]

\* A validatePrivacySettings whose zero-debt advice is given at the
\* CONFIDENTIAL level only.
validatePrivacySettingsExactLevel(collateralAmount, debtAmount, privacyLevel) ==
    [isValid |-> ~(collateralAmount <= 0) /\ ~(debtAmount < 0),
     warnings |->
        (IF collateralAmount <= 0
         THEN <<"Collateral amount must be greater than 0">> ELSE <<>>)
        \o (IF debtAmount < 0
            THEN <<"Debt amount cannot be negative">> ELSE <<>>)
        \o (IF privacyLevel = 2 /\ debtAmount = 0
            THEN <<"Confidential privacy level requires debt amount">> ELSE <<>>)
        \o (IF privacyLevel >= 3 /\ collateralAmount < MinPrivateCollateral
            THEN <<"Private privacy level requires minimum 1 SOL collateral">> ELSE <<>>)]

\* part_001:201-230  validatePrivacySettings: the two hard tests clear isValid
\* and push a warning each (210-218); the two level tests only push a warning
\* (221-227).
validatePrivacySettings(collateralAmount, debtAmount, privacyLevel) ==
    [isValid |-> ~(collateralAmount <= 0) /\ ~(debtAmount < 0),
     warnings |->
        (IF collateralAmount <= 0
         THEN <<"Collateral amount must be greater than 0">> ELSE <<>>)
        \o (IF debtAmount < 0
            THEN <<"Debt amount cannot be negative">> ELSE <<>>)
        \o (IF privacyLevel >= 2 /\ debtAmount = 0
            THEN <<"Confidential privacy level requires debt amount">> ELSE <<>>)
        \o (IF privacyLevel >= 3 /\ collateralAmount < MinPrivateCollateral
            THEN <<"Private privacy level requires minimum 1 SOL collateral">> ELSE <<>>)]

\* The amounts validatePrivacySettings is called with: around zero and around
\* the minimum collateral of the PRIVATE level.
CollateralAmounts ==
    {-1, 0, 1, MinPrivateCollateral - 1, MinPrivateCollateral,
     MinPrivateCollateral + 1, 2 * MinPrivateCollateral}
DebtAmounts == -1..MaxDebt

\* A caller validates a form input.
validate(collateralAmount, debtAmount, privacyLevel) ==
    /\ validation' =
          Some([collateralAmount |-> collateralAmount,
                debtAmount |-> debtAmount,
                privacyLevel |-> privacyLevel,
                out |-> validatePrivacySettings(collateralAmount, debtAmount,
                                                privacyLevel)])
    /\ UNCHANGED uiVars
    /\ UNCHANGED <<clientVars, computationCallbacks, privacyEnabled,
                   activeComputations, ledger, nextPositionId, nextOffset,
                   calls, nRandom, codec>>

NextValidate ==
    \E collateralAmount \in CollateralAmounts, debtAmount \in DebtAmounts,
       privacyLevel \in PrivacyLevels :
        validate(collateralAmount, debtAmount, privacyLevel)

SpecValidate == InitReady /\ [][NextValidate]_vars

\* ------------------------------------------------ encrypt and decrypt
\* The data encryptData is called with: strings (empty, ASCII, two-byte
\* UTF-8), bigints from 0 to the largest of 64 bytes and one byte beyond,
\* and numbers.
MaxBigInt == [i \in 1..BigIntWidth |-> 255]
TooBigInt == [i \in 1..(BigIntWidth + 1) |-> IF i = BigIntWidth + 1 THEN 1 ELSE 0]

TransactionAmounts ==
    {BigInt(0), BigInt(1), BigInt(255), BigInt(256), BigInt(150000000), MaxBigInt,
     TooBigInt}

CodecData ==
    [type : {"string"}, value : {<<>>, <<65>>, <<233>>, <<65, 233>>}]
    \cup [type : {"bigint"}, value : TransactionAmounts]
    \cup [type : {"number"}, value : {0, 1, 255, 2147483647}]

Algorithms == {"AES-128", "AES-256"}

\* The keys a caller passes as options.key: none, or 16 or 32 bytes.
CallerKeys == {None, Some([i \in 1..16 |-> 7]), Some([i \in 1..32 |-> 9])}

\* A caller calls encryptData(data, {algorithm, key}) (client.ts:70-113).
encryptDataCall(data, algorithm, key, n, cipherThrows) ==
    /\ codec' = Some([op |-> "encryptData",
                      step |-> "encrypted",
                      data |-> data,
                      encrypted |-> encryptData(data, algorithm, key, n, cipherThrows),
                      decrypted |-> None,
                      amount |-> None,
                      privacyAtEntry |-> None,
                      err |-> ""])
    /\ UNCHANGED uiVars
    /\ UNCHANGED <<clientVars, computationCallbacks, privacyEnabled,
                   activeComputations, ledger, nextPositionId, nextOffset,
                   calls, nRandom, validation>>

\* The caller hands the EncryptedData it got to decryptData (client.ts:118-137).
decryptDataCall ==
    /\ codec # None
    /\ codec[1].op = "encryptData"
    /\ codec[1].step = "encrypted"
    /\ codec[1].encrypted # None
    /\ codec' = Some([codec[1] EXCEPT !.step = "decrypted",
                                      !.decrypted = decryptData(codec[1].encrypted[1])])
    /\ UNCHANGED uiVars
    /\ UNCHANGED <<clientVars, computationCallbacks, privacyEnabled,
                   activeComputations, ledger, nextPositionId, nextOffset,
                   calls, nRandom, validation>>

\* An encryptTransactionAmount without the privacy guard.
encryptTransactionAmountUnguarded(amount, n, cipherThrows) ==
    /\ codec' =
          Some([op |-> "encryptTransactionAmount",
                step |-> "encrypted",
                data |-> [type |-> "bigint", value |-> amount],
                encrypted |-> encryptData([type |-> "bigint", value |-> amount],
                                          "AES-256", None, n, cipherThrows),
                decrypted |-> None,
                amount |-> None,
                privacyAtEntry |-> Some(privacyEnabled),
                err |-> ""])
    /\ UNCHANGED uiVars
    /\ UNCHANGED <<clientVars, computationCallbacks, privacyEnabled,
                   activeComputations, ledger, nextPositionId, nextOffset,
                   calls, nRandom, validation>>

\* part_000:205-213  encryptTransactionAmount(amount): the privacy guard, then
\* encryptData(amount, {algorithm: 'AES-256'}).
encryptTransactionAmount(amount, n, cipherThrows) ==
    /\ codec' =
          Some([op |-> "encryptTransactionAmount",
                step |-> "encrypted",
                data |-> [type |-> "bigint", value |-> amount],
                encrypted |->
                    IF ~privacyEnabled THEN None
                    ELSE encryptData([type |-> "bigint", value |-> amount],
                                     "AES-256", None, n, cipherThrows),
                decrypted |-> None,
                amount |-> None,
                privacyAtEntry |-> Some(privacyEnabled),
                err |-> IF ~privacyEnabled THEN "PrivacyNotEnabled" ELSE ""])
    /\ UNCHANGED uiVars
    /\ UNCHANGED <<clientVars, computationCallbacks, privacyEnabled,
                   activeComputations, ledger, nextPositionId, nextOffset,
                   calls, nRandom, validation>>

\* part_000:226  BigInt('0x' + the bytes as two hex digits each, joined in
\* array order): the first byte is the most significant digit.
bytesToBigInt(decryptedBytes) == Canonical(Reverse(decryptedBytes))

\* part_000:218-227  decryptTransactionAmount(encryptedData) on the record
\* encryptTransactionAmount returned: the privacy guard, decryptData, and the
\* conversion of the bytes to a bigint.
decryptTransactionAmount ==
    /\ codec # None
    /\ codec[1].op = "encryptTransactionAmount"
    /\ codec[1].step = "encrypted"
    /\ codec[1].encrypted # None
    /\ LET decryptedBytes == decryptData(codec[1].encrypted[1]) IN
       codec' =
          IF ~privacyEnabled
          THEN Some([codec[1] EXCEPT !.step = "decrypted", !.err = "PrivacyNotEnabled",
                                     !.privacyAtEntry = Some(privacyEnabled)])
          ELSE IF decryptedBytes = None
          THEN Some([codec[1] EXCEPT !.step = "decrypted", !.err = "DecryptionError",
                                     !.privacyAtEntry = Some(privacyEnabled)])
          ELSE Some([codec[1] EXCEPT !.step = "decrypted",
                                     !.privacyAtEntry = Some(privacyEnabled),
                                     !.decrypted = decryptedBytes,
                                     !.amount = Some(bytesToBigInt(decryptedBytes[1]))])
    /\ UNCHANGED uiVars
    /\ UNCHANGED <<clientVars, computationCallbacks, privacyEnabled,
                   activeComputations, ledger, nextPositionId, nextOffset,
                   calls, nRandom, validation>>

\* Callers of the encryption path of a ready client: encryptData and
\* decryptData of the V1TArciumClient, the transaction amounts of the
\* V1TAPrivacyClient, and the privacy switch.
NextCodec ==
    \/ \E data \in CodecData, algorithm \in Algorithms, key \in CallerKeys,
          n \in 0..MaxDraws, cipherThrows \in BOOLEAN :
           encryptDataCall(data, algorithm, key, n, cipherThrows)
    \/ decryptDataCall
    \/ \E amount \in TransactionAmounts, n \in 0..MaxDraws, cipherThrows \in BOOLEAN :
           encryptTransactionAmount(amount, n, cipherThrows)
    \/ decryptTransactionAmount
    \/ \E enabled \in BOOLEAN : setPrivacyEnabled(enabled)

SpecCodec == InitReady /\ [][NextCodec]_vars

\* The six privacy operations of a V1TAPrivacyClient from its construction
\* on, with initialize and setPrivacyEnabled at any time and the submissions
\* acknowledged or failing.
NextPrivacy ==
    \/ ClientSteps
    \/ \E params \in OpenParams :
           openPrivatePosition([params EXCEPT !.privacyLevel = CONFIDENTIAL], {})
    \/ \E i \in 1..MaxCalls, ok \in BOOLEAN : openPositionRpcDone(i, ok, FALSE)
    \/ \E positionId \in PositionIds, cipherThrows \in BOOLEAN :
           getPrivatePosition(positionId, cipherThrows)
    \/ \E positionId \in PositionIds : computePrivateHealth(positionId)
    \/ \E positionIds \in BatchLists : batchHealthComputations(positionIds)
    \/ encryptTransactionAmount(BigInt(1), 0, FALSE)
    \/ decryptTransactionAmount
    \/ SubmissionSteps

SpecPrivacy == Init /\ [][NextPrivacy]_vars

\* Health computations on an initialized client whose finalizations carry any
\* payload the network may deliver: the position id in it is whatever
\* awaitComputationFinalization resolved with (client.ts:252-258).
NextAttribution ==
    \/ \E positionId \in PositionIds : computePrivateHealth(positionId)
    \/ SubmissionSteps
    \/ \E i \in CallIds : \E payload \in Payloads : finalizationResolved(i, payload)
    \/ \E i \in 1..MaxCalls : finalizationRejected(i)

SpecAttribution == InitReady /\ [][NextAttribution]_vars

\* ---------------------------------------------------- useArciumPrivacy
\* part_001:28-39  initialize of the hook up to its await: isInitializing is
\* set, the error cleared, a new V1TArciumClient made and its initialize
\* entered (client.ts:47-56).  It is called by the auto-initialize effect
\* (part_001:56-60), which runs after a render in which isInitialized and
\* isInitializing are both false, or by the user through handleInitialize
\* (privacy-settings.tsx:79-81), whose buttons (91, 130) are not rendered
\* while isInitializing (102-111).  The instance is followed until its first
\* success.
hookInitialize(byEffect) ==
    /\ nInits < MaxHookInits
    /\ ~hook.isInitialized
    /\ ~hook.isInitializing
    /\ hook' = [hook EXCEPT !.isInitializing = TRUE,
                            !.error = "",
                            !.inFlight = @ + 1,
                            !.effectRetries =
                                IF byEffect /\ hook.failures > 0 THEN @ + 1 ELSE @]
    /\ nInits' = nInits + 1
    /\ userKeyPair' = Some(nInits + 1)
    /\ initPc' = "awaitProgram"
    /\ UNCHANGED <<isInitialized, arciumProgram, computationCallbacks, privacyEnabled,
                   activeComputations, ledger, nextPositionId, nextOffset, calls,
                   nRandom, pureVars, toggle, settings>>

\* part_001:39-52  the client's initialize resolved (ok: client.ts:56-60, then
\* the client, isInitialized and a copy of getIntegrationStatus() are put in
\* the hook's state) or threw (the error is put in the state; the client is
\* dropped); isInitializing is cleared either way.
hookInitializeDone(ok) ==
    /\ initPc = "awaitProgram"
    /\ hook.isInitializing
    /\ initPc' = "idle"
    /\ IF ok
       THEN /\ arciumProgram' = userKeyPair
            /\ isInitialized' = TRUE
            /\ hook' = [hook EXCEPT
                          !.isInitialized = TRUE,
                          !.isInitializing = FALSE,
                          !.inFlight = @ - 1,
                          !.integrationStatus =
                              Some([getIntegrationStatus EXCEPT !.isInitialized = TRUE])]
       ELSE /\ UNCHANGED <<arciumProgram, isInitialized>>
            /\ hook' = [hook EXCEPT !.isInitializing = FALSE,
                                    !.inFlight = @ - 1,
                                    !.failures = @ + 1,
                                    !.error = "Arcium initialization failed"]
    /\ UNCHANGED <<userKeyPair, nInits, computationCallbacks, privacyEnabled,
                   activeComputations, ledger, nextPositionId, nextOffset, calls,
                   nRandom, pureVars, toggle, settings>>

\* One mounted hook instance from its mount on: its initialize calls, and
\* positions created through usePrivatePosition once it holds a client.
NextHook ==
    \/ \E byEffect \in BOOLEAN : hookInitialize(byEffect)
    \/ \E ok \in BOOLEAN : hookInitializeDone(ok)
    \/ \E collateralAmount \in OpenCollaterals, debtAmount \in OpenDebts,
          owner \in Owners, throws \in SUBSET Fields :
           createPrivatePosition(collateralAmount, debtAmount, owner, throws)
    \/ SubmissionSteps
    \/ FinalizationSteps

SpecHook == Init /\ [][NextHook]_vars

\* ================================================================ claims
\* A computation that has been submitted and whose finalization is being
\* awaited: it has reached neither completed nor failed.
Pending(i) == calls[i].pc = "awaitFinal"

Tracked(i) == calls[i].op = "createPrivatePosition"

\* C1: a second registration for a (positionId, kind) key whose computation is
\* still pending is rejected and the first callback stays in the registry:
\* every pending computation still holds the registry entry of its key.
C1_PendingKeepsItsCallback ==
    \A i \in CallIds :
        Pending(i) =>
            LET k == callbackKey(calls[i].pid, "health_factor") IN
            k \in DOMAIN computationCallbacks /\ computationCallbacks[k] = i

\* C2: for every (positionId, kind) key at most one submitted computation has
\* not yet reached completed or failed.
C2_AtMostOnePendingPerKey ==
    \A p \in PositionIds :
        Cardinality({i \in CallIds : Pending(i) /\ calls[i].pid = p}) <= 1

\* C3: a status entry is created as pending, and once it is completed or
\* failed no later step changes it.
C3_TerminalEntryIsFinal ==
    [][\A p \in PositionIds :
          /\ (p \in DOMAIN activeComputations
                /\ activeComputations[p] \in {"completed", "failed"})
             => (p \in DOMAIN activeComputations'
                   /\ activeComputations'[p] = activeComputations[p])
          /\ (p \notin DOMAIN activeComputations /\ p \in DOMAIN activeComputations')
             => activeComputations'[p] = "pending"]_vars

\* C3 witness: a tracked position's entry is completed and a later
\* computation on the same position has been submitted since.
C3_Witness ==
    \E i, j \in CallIds :
        /\ Tracked(i)
        /\ calls[i].pid \in DOMAIN activeComputations
        /\ activeComputations[calls[i].pid] = "completed"
        /\ calls[j].pid = calls[i].pid
        /\ calls[i].ref # None /\ calls[j].ref # None
        /\ calls[j].ref[1] > calls[i].ref[1]

\* C4: once the configured timeout has passed without finalization the await
\* has failed with TimeoutError and the tracked entry is failed.
C4_TimeoutFailsTheAwait ==
    \A i \in CallIds :
        calls[i].expired =>
            /\ calls[i].pc = "failed"
            /\ calls[i].err = "TimeoutError"
            /\ Tracked(i) => activeComputations[calls[i].pid] = "failed"

\* C5: a finalization delivered after the timeout has passed is not honored:
\* it hands no result to the caller and does not make the entry completed.
C5_LateFinalizationNotHonored ==
    \A i \in CallIds :
        (calls[i].expired /\ calls[i].tag # "") =>
            /\ calls[i].result = None
            /\ Tracked(i) => activeComputations[calls[i].pid] # "completed"

\* C6: a transport error of the submission surfaces only after the request
\* was re-submitted retryAttempts times.
C6_SubmissionRetried ==
    \A i \in CallIds :
        calls[i].err = "SubmissionError" => calls[i].sends = RetryAttempts + 1

\* C7: a returned reference was parsed from a 'Computation created:' marker
\* of the confirmation, and a confirmation without the marker yields the
\* extraction error and no reference.
C7_ReferenceComesFromMarker ==
    \A i \in CallIds :
        /\ calls[i].ref # None =>
              /\ calls[i].confirmation # None
              /\ \E k \in DOMAIN calls[i].confirmation[1].logs :
                    /\ calls[i].confirmation[1].logs[k].marker
                    /\ calls[i].confirmation[1].logs[k].numeric
                    /\ calls[i].confirmation[1].logs[k].value = calls[i].ref[1]
        /\ (/\ calls[i].confirmation # None
            /\ ~calls[i].confirmation[1].txErr
            /\ ~HasMarker(calls[i].confirmation[1]))
           => /\ calls[i].ref = None
              /\ calls[i].err = "ReferenceExtractionError"
              /\ calls[i].pc \in {"failed", "done"}

\* C7 witness: a confirmation without error and without marker was received,
\* and another call got the reference its marker carried.
C7_Witness ==
    \E i, j \in CallIds :
        /\ calls[i].confirmation # None
        /\ ~calls[i].confirmation[1].txErr
        /\ ~HasMarker(calls[i].confirmation[1])
        /\ calls[i].err = "ReferenceExtractionError"
        /\ calls[j].ref # None

\* C8: a call that found the client uninitialized at the guard of
\* encryptPositionData or createHealthFactorComputation failed with the
\* initialization error, encrypted nothing and submitted nothing.
C8_UninitializedClientDoesNothing ==
    \A i \in CallIds :
        calls[i].initAtEntry = Some(FALSE) =>
            /\ calls[i].pc = "failed"
            /\ calls[i].err = "NotInitialized"
            /\ ~calls[i].encPos
            /\ calls[i].sends = 0
            /\ calls[i].ref = None

\* C8 witness: both guarded operations were called on an uninitialized client.
C8_Witness ==
    \E i, j \in CallIds :
        /\ calls[i].op = "openPrivatePosition"
        /\ calls[i].initAtEntry = Some(FALSE)
        /\ calls[j].op = "computePrivateHealth"
        /\ calls[j].initAtEntry = Some(FALSE)

\* C9 as stated: awaiting one computation never blocks the submission of
\* another: no call awaits a finalization while a computation it was asked
\* for is still unsubmitted.
C9_AwaitNeverBlocksSubmission ==
    \A i \in CallIds : Pending(i) => calls[i].rest = <<>>

\* C9 amended: while one call awaits its finalization, every step of every
\* other call stays possible (its submission steps, and its finalization in
\* either outcome), a new call can be made, and a result carries the
\* reference of the call it is handed to.
C9_SeparateCallsIndependent ==
    /\ \A i, j \in CallIds :
          (i # j /\ Pending(i)) =>
              /\ calls[j].pc = "awaitBuild" => ENABLED buildDone(j, TRUE)
              /\ calls[j].pc = "awaitSend" => ENABLED sendDone(j, TRUE)
              /\ calls[j].pc = "awaitConfirm" =>
                     ENABLED (\E confirmation \in Confirmations(nextOffset + 1) :
                                  confirmDone(j, confirmation))
              /\ calls[j].pc = "awaitFinal" =>
                     /\ ENABLED finalizationRejected(j)
                     /\ ENABLED (\E payload \in EchoPayloads(j) :
                                     finalizationResolved(j, payload))
    /\ ((\E i \in CallIds : Pending(i)) /\ Len(calls) < MaxCalls) =>
           ENABLED (\E positionId \in PositionIds : computePrivateHealth(positionId))
    /\ \A i \in CallIds :
          calls[i].result # None =>
              calls[i].result[1].computationId = calls[i].ref[1]

\* C9 witness: two calls were in flight together and the one submitted later
\* got its result first.
C9_Witness ==
    \E i, j \in CallIds :
        /\ i # j
        /\ Pending(i)
        /\ calls[j].result # None
        /\ calls[j].ref[1] > calls[i].ref[1]

\* C10: a finalization payload tagged liquidation_check yields the result of
\* the liquidation materializer, not an error.
C10_LiquidationTagDispatched ==
    \A i \in CallIds :
        calls[i].tag = "liquidation_check" =>
            /\ calls[i].pc = "done"
            /\ calls[i].err = ""
            /\ calls[i].result # None
            /\ calls[i].result[1].isLiquidatable
            /\ calls[i].result[1].computationId = calls[i].ref[1]

\* C10 witness: a call received a liquidation_check payload and a result.
C10_Witness ==
    \E i \in CallIds :
        /\ calls[i].tag = "liquidation_check"
        /\ calls[i].result # None

\* C11: a finalization payload tagged interest_calculation is dispatched to a
\* materializer and yields a result, not an error.
C11_InterestTagDispatched ==
    \A i \in CallIds :
        calls[i].tag = "interest_calculation" =>
            /\ calls[i].pc = "done"
            /\ calls[i].err = ""
            /\ calls[i].result # None

\* The kind tags the contract names.
RecognizedKinds == {"health_factor", "liquidation_check", "interest_calculation"}

\* C12: a finalization payload whose kind tag is none of the recognized kinds
\* makes the await fail with the unknown-kind error, and no result reaches
\* the caller.
C12_UnknownTagFails ==
    \A i \in CallIds :
        (calls[i].tag # "" /\ calls[i].tag \notin RecognizedKinds) =>
            /\ calls[i].pc = "failed"
            /\ calls[i].err = "UnknownComputationType"
            /\ calls[i].result = None

\* C12 witness: an awaited computePrivateHealth received a payload of an
\* unrecognized kind.
C12_Witness ==
    \E i \in CallIds :
        /\ calls[i].op = "computePrivateHealth"
        /\ calls[i].tag = "other"
        /\ calls[i].pc = "failed"

\* C13: for every privacy level validate returns valid = false whenever
\* collateral <= 0 or debt < 0; validate(0, 0, level) and validate(1, -1, level)
\* are invalid at every level.
C13_HardConstraintsInvalidate ==
    /\ validation # None =>
          ((validation[1].collateralAmount <= 0 \/ validation[1].debtAmount < 0)
              => ~validation[1].out.isValid)
    /\ \A privacyLevel \in PrivacyLevels :
          /\ ~validatePrivacySettings(0, 0, privacyLevel).isValid
          /\ ~validatePrivacySettings(1, -1, privacyLevel).isValid

\* C13 witness: validate(0, 0, PRIVATE) was called and returned invalid.
C13_Witness ==
    /\ validation # None
    /\ validation[1].collateralAmount = 0
    /\ validation[1].debtAmount = 0
    /\ validation[1].privacyLevel = PRIVATE
    /\ ~validation[1].out.isValid

\* An input that passes both hard constraints.
ValidInput ==
    /\ validation # None
    /\ validation[1].collateralAmount > 0
    /\ validation[1].debtAmount >= 0

\* C14 as stated: a valid input is returned valid, and it gets a warning
\* exactly when the level is CONFIDENTIAL and the debt zero, or the level is
\* PRIVATE and the collateral below the minimum.
C14_WarningsOnlyForTheTwoCases ==
    ValidInput =>
        /\ validation[1].out.isValid
        /\ (validation[1].out.warnings # <<>>) <=>
              \/ validation[1].privacyLevel = CONFIDENTIAL
                    /\ validation[1].debtAmount = 0
              \/ validation[1].privacyLevel = PRIVATE
                    /\ validation[1].collateralAmount < MinPrivateCollateral

\* C14 amended: a valid input is returned valid, and it gets a warning exactly
\* when the level is CONFIDENTIAL or above and the debt zero, or the level is
\* PRIVATE and the collateral below the minimum.
C14_AdvisoryOnlyWarns ==
    ValidInput =>
        /\ validation[1].out.isValid
        /\ (validation[1].out.warnings # <<>>) <=>
              \/ validation[1].privacyLevel >= CONFIDENTIAL
                    /\ validation[1].debtAmount = 0
              \/ validation[1].privacyLevel = PRIVATE
                    /\ validation[1].collateralAmount < MinPrivateCollateral

\* C14 witness: a PRIVATE position with enough collateral and zero debt was
\* validated: valid, with the zero-debt warning.
C14_Witness ==
    /\ ValidInput
    /\ validation[1].privacyLevel = PRIVATE
    /\ validation[1].collateralAmount >= MinPrivateCollateral
    /\ validation[1].debtAmount = 0
    /\ validation[1].out.isValid
    /\ validation[1].out.warnings = <<"Confidential privacy level requires debt amount">>

\* C15: if any of the three field encryptions fails, encryptPositionData
\* returns no EncryptedPosition, and openPrivatePosition fails without having
\* sent anything to the ledger.
C15_FailedFieldEncryptionOpensNothing ==
    \A i \in CallIds :
        calls[i].encFailed # {} =>
            /\ calls[i].position = None
            /\ ~calls[i].encPos
            /\ calls[i].pc = "failed"
            /\ ~calls[i].rpcSent
            /\ calls[i].metadata = None
            /\ calls[i].pid \notin ledger

\* C15 witness: an open in which only the owner's encryption failed, after
\* an open that went through to the ledger.
C15_Witness ==
    \E i, j \in CallIds :
        /\ calls[i].op = "openPrivatePosition"
        /\ calls[i].encFailed = {"owner"}
        /\ calls[j].op = "openPrivatePosition"
        /\ calls[j].pid \in ledger

\* C16: whenever openPrivatePosition has failed, no position of that call is
\* on the ledger.
C16_FailedOpenPersistsNothing ==
    \A i \in CallIds :
        (calls[i].op = "openPrivatePosition" /\ calls[i].pc = "failed") =>
            calls[i].pid \notin ledger

\* C17: every EncryptedPosition returned has a 32-byte positionKey, its three
\* encrypted fields carry that key, and their nonces are 12 bytes each and
\* pairwise distinct.
C17_OneKeyThreeNonces ==
    \A i \in CallIds :
        calls[i].position # None =>
            LET pos == calls[i].position[1]
                c == pos.encryptedCollateral
                d == pos.encryptedDebt
                o == pos.encryptedOwner[1] IN
            /\ Len(pos.positionKey) = 32
            /\ c.key = pos.positionKey
            /\ d.key = pos.positionKey
            /\ o.key = pos.positionKey
            /\ Len(c.nonce) = 12 /\ Len(d.nonce) = 12 /\ Len(o.nonce) = 12
            /\ c.nonce # d.nonce
            /\ c.nonce # o.nonce
            /\ d.nonce # o.nonce

\* C17 witness: two positions were returned, one by openPrivatePosition.
C17_Witness ==
    \E i, j \in CallIds :
        /\ i # j
        /\ calls[i].op = "openPrivatePosition"
        /\ calls[i].position # None
        /\ calls[j].position # None

\* C18: when the caller of openPrivatePosition supplies a privacyLevel, the
\* returned EncryptedPosition, the on-chain privacy metadata, the input of the
\* integrity hash and the privacy proof all carry that level.
C18_CallerLevelCarried ==
    \A i \in CallIds :
        (calls[i].op = "openPrivatePosition" /\ calls[i].receipt # None) =>
            /\ calls[i].receipt[1].encryptedPosition.privacyLevel = calls[i].level[1]
            /\ calls[i].metadata[1].privacyLevel = calls[i].level[1]
            /\ calls[i].metadata[1].encryptedDataHash.privacyLevel = calls[i].level[1]
            /\ calls[i].receipt[1].privacyProof.privacyLevel = calls[i].level[1]

\* C19: for every byte string, algorithm and key of the algorithm's size,
\* decryptData of what encryptData returned gives back exactly the bytes that
\* were encrypted.
C19_DecryptInvertsEncrypt ==
    (codec # None /\ codec[1].op = "encryptData") =>
        /\ codec[1].step = "decrypted" =>
              /\ codec[1].decrypted # None
              /\ codec[1].decrypted = dataBytes(codec[1].data)
        /\ codec[1].encrypted # None =>
              Len(codec[1].encrypted[1].key) = KeyLength(codec[1].encrypted[1].algorithm)

\* C19 witness: a two-byte UTF-8 string went through AES-128 under a key the
\* caller gave and came back.
C19_Witness ==
    /\ codec # None
    /\ codec[1].op = "encryptData"
    /\ codec[1].step = "decrypted"
    /\ codec[1].data = [type |-> "string", value |-> <<65, 233>>]
    /\ codec[1].encrypted[1].algorithm = "AES-128"
    /\ codec[1].encrypted[1].data # <<65, 195, 169>>
    /\ codec[1].decrypted = Some(<<65, 195, 169>>)

\* C20: for every amount that fits the width,
\* decryptTransactionAmount(encryptTransactionAmount(a)) = a.
C20_AmountRoundTrips ==
    (/\ codec # None
     /\ codec[1].op = "encryptTransactionAmount"
     /\ codec[1].step = "decrypted"
     /\ codec[1].err = "")
    => codec[1].amount = Some(codec[1].data.value)

\* ------------------------------------------- PrivacyToggle, PrivacySettings
\* header.tsx:164-165  the collateralAmount and debtAmount props of
\* PrivacyToggle: the default BigInt(0), and a collateral at the minimum of
\* the PRIVATE level.
ToggleCollaterals == {0, MinPrivateCollateral}
ToggleDebts == {0}

\* header.tsx:189-193  privacyOptions: the levels PrivacyToggle offers.
OfferedLevels == {SHIELDED, CONFIDENTIAL, PRIVATE}

\* header.tsx:195-223  handleToggle up to its await, or to its end: nothing
\* happens before the hook is initialized (196); privacyEnabled is flipped
\* (198-199); when switching on, the settings are validated and the result
\* kept (203-204), and a valid result with a positive collateral suspends the
\* handler at the test encryption (211-213); otherwise onPrivacyChange is
\* called at once (222).
handleToggle(collateralAmount, debtAmount) ==
    /\ hook.isInitialized
    /\ LET newEnabled == ~toggle.privacyEnabled
           v == validatePrivacySettings(collateralAmount, debtAmount,
                                        toggle.selectedLevel)
           t == [toggle EXCEPT !.privacyEnabled = newEnabled,
                               !.validationResult =
                                   IF newEnabled THEN Some(v) ELSE @] IN
       toggle' = IF newEnabled /\ v.isValid /\ collateralAmount > 0
                 THEN [t EXCEPT !.awaiting = @ \cup {<<newEnabled, toggle.selectedLevel>>}]
                 ELSE [t EXCEPT !.notified = Some(<<newEnabled, toggle.selectedLevel>>)]
    /\ UNCHANGED <<hook, settings>>
    /\ UNCHANGED <<clientVars, computationCallbacks, privacyEnabled,
                   activeComputations, ledger, nextPositionId, nextOffset, calls,
                   nRandom, pureVars>>

\* header.tsx:213-222  the test encryption of a suspended handleToggle
\* settled: the hook's encryptPosition returned the position, or caught the
\* error, stored its message and returned null (part_001:81-85); the handler
\* then calls onPrivacyChange with the values it captured.
handleToggleEncrypted(p, ok) ==
    /\ p \in toggle.awaiting
    /\ toggle' = [toggle EXCEPT !.awaiting = @ \ {p}, !.notified = Some(p)]
    /\ hook' = IF ok THEN hook ELSE [hook EXCEPT !.error = "EncryptFailed"]
    /\ UNCHANGED settings
    /\ UNCHANGED <<clientVars, computationCallbacks, privacyEnabled,
                   activeComputations, ledger, nextPositionId, nextOffset, calls,
                   nRandom, pureVars>>

\* header.tsx:225-232  handleLevelChange(level), which the level buttons
\* shown while privacy is on call (288, 306): the level is selected; while
\* privacy is on the settings are validated, the result kept, and
\* onPrivacyChange(true, level) called.
handleLevelChange(level, collateralAmount, debtAmount) ==
    /\ hook.isInitialized
    /\ toggle.privacyEnabled
    /\ toggle' = IF toggle.privacyEnabled
                 THEN [toggle EXCEPT
                         !.selectedLevel = level,
                         !.validationResult =
                             Some(validatePrivacySettings(collateralAmount,
                                                          debtAmount, level)),
                         !.notified = Some(<<TRUE, level>>)]
                 ELSE [toggle EXCEPT !.selectedLevel = level]
    /\ UNCHANGED <<hook, settings>>
    /\ UNCHANGED <<clientVars, computationCallbacks, privacyEnabled,
                   activeComputations, ledger, nextPositionId, nextOffset, calls,
                   nRandom, pureVars>>

\* privacy-settings.tsx:49-71  handlePrivacyLevelChange(level), for any of
\* the four levels of privacyLevels (42-47): the example
\* amounts are validated with the level (54-58); only a valid result selects
\* the level and calls onPrivacyChange(level) (60-62).
handlePrivacyLevelChange(level) ==
    /\ hook.isInitialized
    /\ LET v == validatePrivacySettings(1000000000, 0, level) IN
       settings' = IF v.isValid
                   THEN [settings EXCEPT !.selectedPrivacyLevel = level,
                                         !.validationResult = Some(v),
                                         !.notified = Some(level)]
                   ELSE [settings EXCEPT !.validationResult = Some(v)]
    /\ UNCHANGED <<hook, toggle>>
    /\ UNCHANGED <<clientVars, computationCallbacks, privacyEnabled,
                   activeComputations, ledger, nextPositionId, nextOffset, calls,
                   nRandom, pureVars>>

\* The two components over one mounted hook: the hook's initialize calls and
\* the user's clicks.
NextUi ==
    \/ \E byEffect \in BOOLEAN : hookInitialize(byEffect)
    \/ \E ok \in BOOLEAN : hookInitializeDone(ok)
    \/ \E collateralAmount \in ToggleCollaterals, debtAmount \in ToggleDebts :
           handleToggle(collateralAmount, debtAmount)
    \/ \E p \in BOOLEAN \X OfferedLevels, ok \in BOOLEAN : handleToggleEncrypted(p, ok)
    \/ \E level \in OfferedLevels, collateralAmount \in ToggleCollaterals,
          debtAmount \in ToggleDebts :
           handleLevelChange(level, collateralAmount, debtAmount)
    \/ \E level \in PrivacyLevels : handlePrivacyLevelChange(level)

SpecUi == Init /\ [][NextUi]_vars


\* C21: the integration status a caller observes, the one the hook exposes
\* included, equals the client's state at the moment it is read.
C21_StatusIsCurrent ==
    hook.integrationStatus # None =>
        hook.integrationStatus[1] = getIntegrationStatus

\* C28: after a failed initialize the auto-initialize effect starts no
\* further call, and no two initialize calls of the instance are in flight
\* together.
C28_AutoInitSettles ==
    /\ hook.effectRetries = 0
    /\ hook.inFlight <= 1

\* C22: every failure of a lookup, a submission or a monitoring reaches the
\* caller as an error: no call in which an error was raised resolves.
C22_FailureReachesCaller ==
    \A i \in CallIds : calls[i].err # "" => calls[i].pc = "failed"

\* C25: privacyEnabled starts false and no operation changes it but
\* setPrivacyEnabled; an operation of the privacy client entered while it is
\* false fails with 'Privacy features are not enabled', and has encrypted
\* nothing, sent nothing to the ledger and submitted no computation.
C25_DisabledPrivacyBlocks ==
    /\ ~privacyEnabled
    /\ [][privacyEnabled' # privacyEnabled =>
             /\ calls' = calls
             /\ codec' = codec
             /\ UNCHANGED <<clientVars, computationCallbacks, ledger>>]_vars
    /\ [](\A i \in CallIds :
             calls[i].privacyAtEntry = Some(FALSE) =>
                 /\ calls[i].pc = "failed"
                 /\ calls[i].err = "PrivacyNotEnabled"
                 /\ calls[i].initAtEntry = None
                 /\ calls[i].position = None
                 /\ calls[i].encFailed = {}
                 /\ calls[i].found = None
                 /\ ~calls[i].rpcSent
                 /\ calls[i].sends = 0
                 /\ calls[i].ref = None
                 /\ calls[i].results = <<>>)
    /\ []((codec # None /\ codec[1].privacyAtEntry = Some(FALSE)) =>
             /\ codec[1].err = "PrivacyNotEnabled"
             /\ codec[1].step = "encrypted" => codec[1].encrypted = None
             /\ codec[1].decrypted = None
             /\ codec[1].amount = None)

\* C25 witness: an amount was encrypted while privacy was on and its
\* decryption refused after privacy was switched off, and a lookup and a
\* batch were refused as well.
C25_Witness ==
    /\ codec # None
    /\ codec[1].step = "decrypted"
    /\ codec[1].encrypted # None
    /\ codec[1].privacyAtEntry = Some(FALSE)
    /\ \E i, j \in CallIds :
          /\ calls[i].op = "getPrivatePosition"
          /\ calls[i].privacyAtEntry = Some(FALSE)
          /\ calls[j].op = "batchHealthComputations"
          /\ calls[j].privacyAtEntry = Some(FALSE)

\* C23: whatever the interleaving of submissions and finalizations, the
\* tracked status of every position whose computation has finished is the
\* outcome of that computation: completed if it resolved, failed if not.
C23_EntryIsOwnOutcome ==
    \A i \in CallIds :
        (Tracked(i) /\ calls[i].ref # None /\ calls[i].pc \in {"done", "failed"}) =>
            activeComputations[calls[i].pid] =
                (IF calls[i].pc = "done" THEN "completed" ELSE "failed")

\* C24: when validatePrivacySettings returned isValid = FALSE to
\* PrivacyToggle, privacy is not on and onPrivacyChange(true, level) was not
\* called; PrivacySettings selected and announced no level that failed
\* validation.
C24_InvalidBlocks ==
    /\ (toggle.validationResult # None /\ ~toggle.validationResult[1].isValid) =>
           /\ ~toggle.privacyEnabled
           /\ toggle.notified = None \/ ~toggle.notified[1][1]
    /\ (settings.validationResult # None /\ ~settings.validationResult[1].isValid) =>
           settings.notified = None

\* C26: the registry changes only in a step in which
\* createHealthFactorComputation returns a reference, and then it gains the
\* entry of that position's key and nothing else; every other step, each
\* failure of a submission included, leaves the registry as it was.
C26_RegistryFollowsAcknowledgement ==
    [][IF \E i \in CallIds : calls[i].ref = None /\ calls'[i].ref # None
       THEN \E i \in CallIds :
               /\ calls[i].ref = None
               /\ calls'[i].ref # None
               /\ computationCallbacks' =
                      MapSet(computationCallbacks,
                             callbackKey(calls'[i].pid, "health_factor"), i)
       ELSE computationCallbacks' = computationCallbacks]_vars

\* C26 witness: one submission was acknowledged and registered, and another
\* failed at the reference extraction and registered nothing.
C26_Witness ==
    \E i, j \in CallIds :
        /\ calls[i].ref # None
        /\ callbackKey(calls[i].pid, "health_factor") \in DOMAIN computationCallbacks
        /\ calls[j].pc = "failed"
        /\ calls[j].err = "ReferenceExtractionError"
        /\ Cardinality(DOMAIN computationCallbacks) = 1

\* C27: once no initialize is running, a client that is not initialized has
\* no key pair (publicKey is null), and an initialized client has the key
\* pair its program instance was made with: a failed initialize changed
\* nothing.
C27_FailedInitializeChangesNothing ==
    initPc = "idle" =>
        /\ ~isInitialized => userKeyPair = None
        /\ isInitialized => arciumProgram = userKeyPair

\* C29: a result returned by monitorComputation(ref) carries ref's
\* computation offset, and the result computePrivateHealth(positionId)
\* returns carries the position id that was asked for.
C29_ResultAttributed ==
    \A i \in CallIds :
        calls[i].result # None =>
            /\ calls[i].result[1].computationId = calls[i].ref[1]
            /\ calls[i].op = "computePrivateHealth" =>
                   calls[i].result[1].positionId = calls[i].pid

\* C30: the currentComputations of the integration status is the number of
\* submitted computations that have reached neither completed nor failed, and
\* so is 0 when none is in flight.
C30_CountsInFlightOnly ==
    getIntegrationStatus.currentComputations =
        Cardinality({i \in CallIds : Pending(i)})

====
